---------------------------- MODULE Spec2Model ----------------------------
(***************************************************************************)
(* salt/modules/openbsdservice.py: the OpenBSD rc.d service module.        *)
(*                                                                         *)
(* Text is modelled character by character: a string is a sequence of      *)
(* one-character strings, so that the module's regular expressions, its    *)
(* splitting and its glob matching are computed, not assumed.              *)
(*                                                                         *)
(* The world the module reads is three things: the boot script /etc/rc,    *)
(* the variable bindings that `(. /etc/rc.conf && set)` prints, and the    *)
(* directory /etc/rc.d.  Every function of the module is one action; what  *)
(* the last call was given and what it returned is kept in op, arg, input, *)
(* result, issued and logged.  An edit of the world clears that record, so *)
(* a recorded result is always the result for the world as it stands.      *)
(***************************************************************************)
EXTENDS Integers, Sequences, FiniteSets

VARIABLES
    rc,       \* /etc/rc: [readable : BOOLEAN, lines : Seq(text)]
    conf,     \* the bindings `set` prints after sourcing /etc/rc.conf, one text per line
    rcd,      \* /etc/rc.d: [isdir : BOOLEAN, entries : [Scripts -> Kinds]]
    op,       \* the function last called ("none" before any call)
    arg,      \* its name argument
    input,    \* what the collaborators (cmd.retcode, status.pid) answered
    result,   \* its return value
    issued,   \* the commands it ran, in order
    logged,   \* the log.error messages it wrote
    first     \* the first call of the run, with the world it saw (SpecSeq only)

vars == <<rc, conf, rcd, op, arg, input, result, issued, logged, first>>
world == <<rc, conf, rcd>>

-----------------------------------------------------------------------------
(* Characters and literals                                                 *)

WordChars ==
    {"a", "b", "c", "d", "e", "f", "g", "h", "i", "j", "k", "l", "m",
     "n", "o", "p", "q", "r", "s", "t", "u", "v", "w", "x", "y", "z",
     "A", "B", "C", "D", "E", "F", "G", "H", "I", "J", "K", "L", "M",
     "N", "O", "P", "Q", "R", "S", "T", "U", "V", "W", "X", "Y", "Z",
     "0", "1", "2", "3", "4", "5", "6", "7", "8", "9", "_"}

SpaceChars == {" ", "\t", "\n", "\r"}

\* \w and \s of Python's re
IsWord(c) == c \in WordChars
IsSpace(c) == c \in SpaceChars

\* The characters the model uses, in code-point order (for sorted()).
CodePoints ==
    <<"\t", "\n", "\r", " ", "!", "#", "'", "(", ")", "*", "-", ".", "/",
      "0", "1", "2", "3", "4", "5", "6", "7", "8", "9", "=", "?",
      "A", "B", "C", "D", "E", "F", "G", "H", "I", "J", "K", "L", "M",
      "N", "O", "P", "Q", "R", "S", "T", "U", "V", "W", "X", "Y", "Z",
      "[", "]", "_",
      "a", "b", "c", "d", "e", "f", "g", "h", "i", "j", "k", "l", "m",
      "n", "o", "p", "q", "r", "s", "t", "u", "v", "w", "x", "y", "z",
      "{", "}">>

ord(c) == CHOOSE i \in 1..Len(CodePoints) : CodePoints[i] = c

START_DAEMON == <<"s", "t", "a", "r", "t", "_", "d", "a", "e", "m", "o", "n">>
FLAGS_EQ == <<"_", "f", "l", "a", "g", "s", "=">>
NO == <<"N", "O">>
PKG_SCRIPTS_EQ_QUOTE == <<"p", "k", "g", "_", "s", "c", "r", "i", "p", "t", "s", "=", "'">>
RC_D == <<"/", "e", "t", "c", "/", "r", "c", ".", "d", "/">>
DASH_F == <<" ", "-", "f", " ">>

\* s[i..] starts with p
HasPrefixAt(s, i, p) ==
    /\ i + Len(p) - 1 <= Len(s)
    /\ \A k \in 1..Len(p) : s[i + k - 1] = p[k]

\* the first index >= i of s that is not whitespace (Len(s)+1 if none): \s*
SkipSpace(s, i) ==
    CHOOSE j \in i..(Len(s) + 1) :
        /\ \A k \in i..(j - 1) : IsSpace(s[k])
        /\ j = Len(s) + 1 \/ ~IsSpace(s[j])

\* the last index of the run of characters satisfying \w that starts at i
\* (i - 1 if s[i] is no word character)
WordRunEnd(s, i) ==
    CHOOSE j \in (i - 1)..Len(s) :
        /\ \A k \in i..j : IsWord(s[k])
        /\ j = Len(s) \/ ~IsWord(s[j + 1])

\* the last index of the run of non-whitespace characters that starts at i
TokenEnd(s, i) ==
    CHOOSE j \in (i - 1)..Len(s) :
        /\ \A k \in i..j : ~IsSpace(s[k])
        /\ j = Len(s) \/ IsSpace(s[j + 1])

From(s, i) == SubSeq(s, i, Len(s))

-----------------------------------------------------------------------------
(* The four regular expressions                                            *)

\* a variant anchored at column 0 (the leading \s* dropped)
start_daemon_call_regex_col0(line) ==
    IF /\ HasPrefixAt(line, 1, START_DAEMON)
       /\ ~HasPrefixAt(line, 1 + Len(START_DAEMON), <<"(", ")">>)
    THEN Len(START_DAEMON)
    ELSE 0

\* start_daemon_call_regex.match(line): the length of group(1), 0 for no match.
\* r"(\s*start_daemon(?!\(\)))"
start_daemon_call_regex(line) ==
    LET i == SkipSpace(line, 1) IN
    IF /\ HasPrefixAt(line, i, START_DAEMON)
       /\ ~HasPrefixAt(line, i + Len(START_DAEMON), <<"(", ")">>)
    THEN i + Len(START_DAEMON) - 1
    ELSE 0

\* start_daemon_parameter_regex.findall(text): r"(?:\s+(\w[\w\d]*))", every
\* maximal run of word characters that whitespace precedes.
start_daemon_parameter_regex(text) ==
    { SubSeq(text, a, WordRunEnd(text, a)) :
        a \in { i \in 2..Len(text) : IsSpace(text[i - 1]) /\ IsWord(text[i]) } }

\* service_flags_regex.match(var): r"^\s*(\w[\d\w]*)_flags=(?:(NO)|.*)$"
\* [matched, group1, group2]; group2 is "NO" only when the value is exactly NO.
service_flags_regex(var) ==
    LET i == SkipSpace(var, 1)
        e == WordRunEnd(var, i)          \* the word run must end in _flags, then =
        n == Len(FLAGS_EQ)
    IN  IF /\ e - i + 1 >= n             \* one \w at least, then the 6 of _flags
           /\ HasPrefixAt(var, e - n + 2, FLAGS_EQ)
        THEN [matched |-> TRUE,
              group1  |-> SubSeq(var, i, e - n + 1),
              group2  |-> IF From(var, e + 2) = NO THEN NO ELSE <<>>]
        ELSE [matched |-> FALSE, group1 |-> <<>>, group2 |-> <<>>]

\* pkg_scripts_regex.match(var): r"^\s*pkg_scripts=\'(.*)\'$"
pkg_scripts_regex(var) ==
    LET i == SkipSpace(var, 1)
        n == Len(PKG_SCRIPTS_EQ_QUOTE)
    IN  IF /\ HasPrefixAt(var, i, PKG_SCRIPTS_EQ_QUOTE)
           /\ Len(var) >= i + n          \* a closing quote after the opening one
           /\ var[Len(var)] = "'"
        THEN [matched |-> TRUE, group1 |-> SubSeq(var, i + n, Len(var) - 1)]
        ELSE [matched |-> FALSE, group1 |-> <<>>]

\* str.split(): the maximal runs of non-whitespace characters
split_ws(text) ==
    { SubSeq(text, a, TokenEnd(text, a)) :
        a \in { i \in 1..Len(text) :
                  ~IsSpace(text[i]) /\ (i = 1 \/ IsSpace(text[i - 1])) } }

\* str.split("\n")
RECURSIVE split_nl(_)
split_nl(text) ==
    IF \A i \in 1..Len(text) : text[i] # "\n"
    THEN <<text>>
    ELSE LET i == CHOOSE j \in 1..Len(text) :
                      text[j] = "\n" /\ \A k \in 1..(j - 1) : text[k] # "\n"
         IN  <<SubSeq(text, 1, i - 1)>> \o split_nl(From(text, i + 1))


\* "\n".join(lines)
RECURSIVE join_nl(_)
join_nl(lines) ==
    IF lines = <<>> THEN <<>>
    ELSE IF Len(lines) = 1 THEN lines[1]
    ELSE lines[1] \o <<"\n">> \o join_nl(Tail(lines))

-----------------------------------------------------------------------------
(* _get_rc: the map daemon name -> enabled                                 *)

EmptyDict == [d \in {} |-> TRUE]

\* dict[k] = v for every k of keys
SetAll(dict, keys, v) ==
    [d \in DOMAIN dict \cup keys |-> IF d \in keys THEN v ELSE dict[d]]

SET_CMD ==
    <<"(", ".", " ", "/", "e", "t", "c", "/", "r", "c", ".", "c", "o", "n", "f",
      " ", "&", "&", " ", "s", "e", "t", ")">>

\* handle.readlines(): every line with its newline
readlines(lines) == [i \in 1..Len(lines) |-> lines[i] \o <<"\n">>]

\* __salt__["cmd.run"]("(. /etc/rc.conf && set)", ...): the bindings, one per line
cmd_run_set == join_nl(conf)

\* a variant where the map of an earlier call survives (a module-level dict)
stale_daemons_flags ==
    IF first.op = "_get_rc" THEN first.result ELSE EmptyDict

\* daemons_flags = {}                                              (line 160)
new_daemons_flags == EmptyDict

\* lines 170-179: one line of /etc/rc
rc_line(line, daemons_flags) ==
    LET match == start_daemon_call_regex(line) IN
    IF match > 0
    THEN SetAll(daemons_flags,
                start_daemon_parameter_regex(From(line, match + 1)), TRUE)
    ELSE daemons_flags

RECURSIVE rc_lines(_, _)
rc_lines(lines, daemons_flags) ==
    IF lines = <<>> THEN daemons_flags
    ELSE rc_lines(Tail(lines), rc_line(Head(lines), daemons_flags))

\* a variant that uses the lines whether or not the read raised
phase1_unguarded(daemons_flags) ==
    [flags |-> rc_lines(readlines(rc.lines), daemons_flags), log |-> <<>>]

\* lines 162-179: the try / except OSError / else around the read of /etc/rc
phase1(daemons_flags) ==
    IF rc.readable
    THEN [flags |-> rc_lines(readlines(rc.lines), daemons_flags), log |-> <<>>]
    ELSE [flags |-> daemons_flags, log |-> <<"Unable to read /etc/rc">>]

\* a variant that disables only names the map does not hold yet
flags_var_new_only(match, daemons_flags) ==
    IF match.group2 = NO /\ match.group1 \notin DOMAIN daemons_flags
    THEN SetAll(daemons_flags, {match.group1}, FALSE)
    ELSE daemons_flags

\* lines 190-196: a <name>_flags= binding (the value NO disables)
flags_var(match, daemons_flags) ==
    IF match.group2 = NO
    THEN SetAll(daemons_flags, {match.group1}, FALSE)
    ELSE daemons_flags

\* a variant that adds the listed names without overwriting (dict.setdefault)
pkg_var_new_only(match, daemons_flags) ==
    SetAll(daemons_flags, split_ws(match.group1) \ DOMAIN daemons_flags, TRUE)

\* lines 198-204: the pkg_scripts binding
pkg_var(match, daemons_flags) ==
    SetAll(daemons_flags, split_ws(match.group1), TRUE)

\* lines 189-204: one binding of the dump
conf_var(var, daemons_flags) ==
    LET match == service_flags_regex(var) IN
    IF match.matched
    THEN flags_var(match, daemons_flags)
    ELSE LET match2 == pkg_scripts_regex(var) IN
         IF match2.matched
         THEN pkg_var(match2, daemons_flags)
         ELSE daemons_flags

RECURSIVE conf_vars(_, _)
conf_vars(variables, daemons_flags) ==
    IF variables = <<>> THEN daemons_flags
    ELSE conf_vars(Tail(variables), conf_var(Head(variables), daemons_flags))

\* lines 183-204
phase2(daemons_flags) == conf_vars(split_nl(cmd_run_set), daemons_flags)

\* _get_rc(): [flags, log]
_get_rc ==
    LET p1 == phase1(new_daemons_flags) IN
    [flags |-> phase2(p1.flags), log |-> p1.log]

-----------------------------------------------------------------------------
(* /etc/rc.d: available, missing, get_all, get_enabled, get_disabled       *)

\* os.path.isfile("/etc/rc.d/<name>")
isfile(name) ==
    /\ rcd.isdir
    /\ name \in DOMAIN rcd.entries
    /\ rcd.entries[name] \in {"plain", "exec"}

\* os.access("/etc/rc.d/<name>", os.X_OK)
access_x(name) ==
    /\ rcd.isdir
    /\ name \in DOMAIN rcd.entries
    /\ rcd.entries[name] \in {"exec", "subdir"}

\* os.listdir("/etc/rc.d")
listdir == { s \in DOMAIN rcd.entries : rcd.entries[s] # "absent" }

Range(seq) == { seq[i] : i \in 1..Len(seq) }

\* a < b for two strings, as Python compares them
str_lt(a, b) ==
    \E k \in 1..(Len(a) + 1) :
        /\ \A i \in 1..(k - 1) : i <= Len(b) /\ a[i] = b[i]
        /\ k <= Len(b)
        /\ k = Len(a) + 1 \/ ord(a[k]) < ord(b[k])

\* sorted(names)
RECURSIVE sorted(_)
sorted(names) ==
    IF names = {} THEN <<>>
    ELSE LET least == CHOOSE n \in names : \A m \in names \ {n} : str_lt(n, m)
         IN  <<least>> \o sorted(names \ {least})

\* available(name)                                            (lines 222-223)
available(name) == isfile(name) /\ access_x(name)

\* missing(name)                                                  (line 240)
missing(name) == ~available(name)

\* get_all()                                                 (lines 255-262)
get_all ==
    IF ~rcd.isdir
    THEN <<>>
    ELSE sorted({ service \in listdir : available(service) })

\* the daemons of the map with the given value           (lines 277-280, 311-314)
services_with(daemons_flags, is_enabled) ==
    { daemon \in DOMAIN daemons_flags : daemons_flags[daemon] = is_enabled }

\* get_enabled()                                                  (line 281)
get_enabled == sorted(Range(get_all) \cap services_with(_get_rc.flags, TRUE))

\* a variant that returns the disabled daemons without the intersection
get_disabled_unfiltered == sorted(services_with(_get_rc.flags, FALSE))

\* get_disabled()                                                 (line 315)
get_disabled == sorted(Range(get_all) \cap services_with(_get_rc.flags, FALSE))

\* enabled(name)                                                  (line 296)
enabled(name) == name \in Range(get_enabled)

\* a variant that answers the negation of enabled
disabled_not_enabled(name) == name \notin Range(get_enabled)

\* disabled(name)                                                 (line 330)
disabled(name) == name \in Range(get_disabled)

-----------------------------------------------------------------------------
(* start, stop, restart, reload_, status                                   *)

\* Python's `not x` for an exit code
py_not(retcode) == retcode = 0

\* start(name), given what cmd.retcode answers                 (lines 58-59)
start(name, retcode) ==
    [cmd |-> RC_D \o name \o DASH_F \o <<"s", "t", "a", "r", "t">>,
     ret |-> py_not(retcode)]

\* stop(name)                                                  (lines 72-73)
stop(name, retcode) ==
    [cmd |-> RC_D \o name \o DASH_F \o <<"s", "t", "o", "p">>,
     ret |-> py_not(retcode)]

\* restart(name)                                               (lines 86-87)
restart(name, retcode) ==
    [cmd |-> RC_D \o name \o DASH_F \o <<"r", "e", "s", "t", "a", "r", "t">>,
     ret |-> py_not(retcode)]

\* a variant of reload_ that runs the restart action
reload_as_restart(name, retcode) == restart(name, retcode)

\* reload_(name)                                             (lines 142-143)
reload_(name, retcode) ==
    [cmd |-> RC_D \o name \o DASH_F \o <<"r", "e", "l", "o", "a", "d">>,
     ret |-> py_not(retcode)]

\* re.search(r"\*|\?|\[.+\]", name)                               (line 116)
contains_globbing(name) ==
    \E i \in 1..Len(name) :
        \/ name[i] \in {"*", "?"}
        \/ /\ name[i] = "["
           /\ \E j \in (i + 2)..Len(name) :
                  /\ name[j] = "]"
                  /\ \A k \in (i + 1)..(j - 1) : name[k] # "\n"

\* fnmatch's bracket expression that opens at pat[1]: the index of its closing
\* bracket, 0 when there is none (the "[" is then an ordinary character)
bracket_close(pat) ==
    LET j0 == IF Len(pat) >= 2 /\ pat[2] = "!" THEN 3 ELSE 2
        j1 == IF Len(pat) >= j0 /\ pat[j0] = "]" THEN j0 + 1 ELSE j0
        closing == { j \in j1..Len(pat) : pat[j] = "]" }
    IN  IF closing = {} THEN 0
        ELSE CHOOSE j \in closing : \A k \in closing : j <= k

\* whether c is in the bracket expression pat[1..close] (character ranges
\* a-z are not modelled: no pattern of the model holds a "-")
bracket_has(pat, close, c) ==
    IF pat[2] = "!"
    THEN \A i \in 3..(close - 1) : pat[i] # c
    ELSE \E i \in 2..(close - 1) : pat[i] = c

\* fnmatch.fnmatchcase(name, pat)
RECURSIVE fnmatch(_, _)
fnmatch(name, pat) ==
    IF pat = <<>> THEN name = <<>>
    ELSE IF Head(pat) = "*"
    THEN \E k \in 1..(Len(name) + 1) : fnmatch(From(name, k), Tail(pat))
    ELSE IF name = <<>> THEN FALSE
    ELSE IF Head(pat) = "?"
    THEN fnmatch(Tail(name), Tail(pat))
    ELSE IF Head(pat) = "[" /\ bracket_close(pat) > 0
    THEN /\ bracket_has(pat, bracket_close(pat), Head(name))
         /\ fnmatch(Tail(name), From(pat, bracket_close(pat) + 1))
    ELSE Head(name) = Head(pat) /\ fnmatch(Tail(name), Tail(pat))

\* fnmatch.filter(names, pat)
fnmatch_filter(names, pat) == SelectSeq(names, LAMBDA n : fnmatch(n, pat))

\* a variant without globbing: the name itself, always
status_services_literal(name) == <<name>>

\* the services status checks                                (lines 116-120)
status_services(name) ==
    IF contains_globbing(name)
    THEN fnmatch_filter(get_all, name)
    ELSE <<name>>

\* status(name, sig), given what status.pid and cmd.retcode (by service)
\* answer                                                     (lines 113-127)
status(name, sig, pid, retcodes) ==
    IF sig # ""
    THEN [cmds |-> <<>>, ret |-> pid # ""]
    ELSE LET services == status_services(name)
             results == [service \in Range(services) |-> py_not(retcodes[service])]
         IN  [cmds |-> [i \in 1..Len(services) |->
                           RC_D \o services[i] \o DASH_F \o <<"c", "h", "e", "c", "k">>],
              ret  |-> IF contains_globbing(name) THEN results ELSE results[name]]

-----------------------------------------------------------------------------
(* The world and its edits                                                 *)

sshd == <<"s", "s", "h", "d">>
sshd2 == <<"s", "s", "h", "d", "2">>
httpd == <<"h", "t", "t", "p", "d">>
cron == <<"c", "r", "o", "n">>

Scripts == {sshd, sshd2, httpd, cron}
Kinds == {"absent", "plain", "exec", "subdir"}

\* lines a boot script may hold
RcCall == <<"s", "t", "a", "r", "t", "_", "d", "a", "e", "m", "o", "n", " ", "s", "s", "h", "d", " ", "h", "t", "t", "p", "d">>
RcDef == <<"s", "t", "a", "r", "t", "_", "d", "a", "e", "m", "o", "n", "(", ")", " ", "{">>
RcIndented == <<"\t", "s", "t", "a", "r", "t", "_", "d", "a", "e", "m", "o", "n", " ", "c", "r", "o", "n">>
RcEcho == <<"e", "c", "h", "o", " ", "s", "t", "a", "r", "t", "_", "d", "a", "e", "m", "o", "n", " ", "c", "r", "o", "n">>
RcMenu == {RcCall, RcDef, RcIndented, RcEcho}

\* bindings the dump may hold
ConfSshdNo == <<"s", "s", "h", "d", "_", "f", "l", "a", "g", "s", "=", "N", "O">>
ConfCronNo == <<"c", "r", "o", "n", "_", "f", "l", "a", "g", "s", "=", "N", "O">>
ConfHttpdNot == <<"h", "t", "t", "p", "d", "_", "f", "l", "a", "g", "s", "=", "N", "O", "T">>
ConfPkg == <<"p", "k", "g", "_", "s", "c", "r", "i", "p", "t", "s", "=", "'", "c", "r", "o", "n", " ", "s", "s", "h", "d", "'">>
ConfPkgBare == <<"p", "k", "g", "_", "s", "c", "r", "i", "p", "t", "s", "=", "c", "r", "o", "n">>
ConfMenu == {ConfSshdNo, ConfCronNo, ConfHttpdNot, ConfPkg, ConfPkgBare}

MaxRcLines == 2
MaxConfLines == 3

NoCall ==
    /\ op' = "none"
    /\ arg' = <<>>
    /\ input' = <<>>
    /\ result' = <<>>
    /\ issued' = <<>>
    /\ logged' = <<>>

AppendRc(menu, max) ==
    /\ Len(rc.lines) < max
    /\ \E line \in menu : rc' = [rc EXCEPT !.lines = Append(@, line)]
    /\ NoCall
    /\ UNCHANGED <<conf, rcd>>

TruncateRc ==
    /\ rc.lines # <<>>
    /\ rc' = [rc EXCEPT !.lines = <<>>]
    /\ NoCall
    /\ UNCHANGED <<conf, rcd>>

ChmodRc ==
    /\ rc' = [rc EXCEPT !.readable = ~@]
    /\ NoCall
    /\ UNCHANGED <<conf, rcd>>

AppendConf(menu, max) ==
    /\ Len(conf) < max
    /\ \E var \in menu : conf' = Append(conf, var)
    /\ NoCall
    /\ UNCHANGED <<rc, rcd>>

TruncateConf ==
    /\ conf # <<>>
    /\ conf' = <<>>
    /\ NoCall
    /\ UNCHANGED <<rc, rcd>>

\* create, remove or chmod one entry of /etc/rc.d
SetEntry(names, kinds) ==
    /\ rcd.isdir
    /\ \E name \in names, kind \in kinds :
           /\ rcd.entries[name] # kind
           /\ rcd' = [rcd EXCEPT !.entries[name] = kind]
    /\ NoCall
    /\ UNCHANGED <<rc, conf>>

\* rm -r /etc/rc.d
RemoveDir ==
    /\ rcd.isdir
    /\ rcd' = [isdir |-> FALSE, entries |-> [s \in Scripts |-> "absent"]]
    /\ NoCall
    /\ UNCHANGED <<rc, conf>>

\* mkdir /etc/rc.d
MakeDir ==
    /\ ~rcd.isdir
    /\ rcd' = [rcd EXCEPT !.isdir = TRUE]
    /\ NoCall
    /\ UNCHANGED <<rc, conf>>

Init ==
    /\ rc = [readable |-> TRUE, lines |-> <<>>]
    /\ conf = <<>>
    /\ rcd = [isdir |-> TRUE, entries |-> [s \in Scripts |-> "absent"]]
    /\ op = "none"
    /\ arg = <<>>
    /\ input = <<>>
    /\ result = <<>>
    /\ issued = <<>>
    /\ logged = <<>>
    /\ first = [op |-> "none"]

-----------------------------------------------------------------------------
(* The calls                                                               *)

GetRc ==
    /\ op' = "_get_rc"
    /\ arg' = <<>>
    /\ input' = <<>>
    /\ result' = _get_rc.flags
    /\ issued' = <<SET_CMD>>
    /\ logged' = _get_rc.log
    /\ UNCHANGED world

Available(names) ==
    \E name \in names :
        /\ op' = "available"
        /\ arg' = name
        /\ input' = <<>>
        /\ result' = available(name)
        /\ issued' = <<>>
        /\ logged' = <<>>
        /\ UNCHANGED world

Missing(names) ==
    \E name \in names :
        /\ op' = "missing"
        /\ arg' = name
        /\ input' = <<>>
        /\ result' = missing(name)
        /\ issued' = <<>>
        /\ logged' = <<>>
        /\ UNCHANGED world

GetAll ==
    /\ op' = "get_all"
    /\ arg' = <<>>
    /\ input' = <<>>
    /\ result' = get_all
    /\ issued' = <<>>
    /\ logged' = <<>>
    /\ UNCHANGED world

GetEnabled ==
    /\ op' = "get_enabled"
    /\ arg' = <<>>
    /\ input' = <<>>
    /\ result' = get_enabled
    /\ issued' = <<SET_CMD>>
    /\ logged' = _get_rc.log
    /\ UNCHANGED world

GetDisabled ==
    /\ op' = "get_disabled"
    /\ arg' = <<>>
    /\ input' = <<>>
    /\ result' = get_disabled
    /\ issued' = <<SET_CMD>>
    /\ logged' = _get_rc.log
    /\ UNCHANGED world

Enabled(names) ==
    \E name \in names :
        /\ op' = "enabled"
        /\ arg' = name
        /\ input' = <<>>
        /\ result' = enabled(name)
        /\ issued' = <<SET_CMD>>
        /\ logged' = _get_rc.log
        /\ UNCHANGED world

Disabled(names) ==
    \E name \in names :
        /\ op' = "disabled"
        /\ arg' = name
        /\ input' = <<>>
        /\ result' = disabled(name)
        /\ issued' = <<SET_CMD>>
        /\ logged' = _get_rc.log
        /\ UNCHANGED world

ExitCodes == {0, 1, 127}

Start(names) ==
    \E name \in names, retcode \in ExitCodes :
        /\ op' = "start"
        /\ arg' = name
        /\ input' = retcode
        /\ result' = start(name, retcode).ret
        /\ issued' = <<start(name, retcode).cmd>>
        /\ logged' = <<>>
        /\ UNCHANGED world

Stop(names) ==
    \E name \in names, retcode \in ExitCodes :
        /\ op' = "stop"
        /\ arg' = name
        /\ input' = retcode
        /\ result' = stop(name, retcode).ret
        /\ issued' = <<stop(name, retcode).cmd>>
        /\ logged' = <<>>
        /\ UNCHANGED world

Restart(names) ==
    \E name \in names, retcode \in ExitCodes :
        /\ op' = "restart"
        /\ arg' = name
        /\ input' = retcode
        /\ result' = restart(name, retcode).ret
        /\ issued' = <<restart(name, retcode).cmd>>
        /\ logged' = <<>>
        /\ UNCHANGED world

Reload(names) ==
    \E name \in names, retcode \in ExitCodes :
        /\ op' = "reload_"
        /\ arg' = name
        /\ input' = retcode
        /\ result' = reload_(name, retcode).ret
        /\ issued' = <<reload_(name, retcode).cmd>>
        /\ logged' = <<>>
        /\ UNCHANGED world

\* status(name): no signature
Status(names) ==
    \E name \in names :
        \E retcodes \in [Range(status_services(name)) -> ExitCodes] :
            /\ op' = "status"
            /\ arg' = name
            /\ input' = [sig |-> "", retcodes |-> retcodes]
            /\ result' = status(name, "", "", retcodes).ret
            /\ issued' = status(name, "", "", retcodes).cmds
            /\ logged' = <<>>
            /\ UNCHANGED world

\* status(name, sig): status.pid answers a pid or nothing
StatusSig(names, sigs) ==
    \E name \in names, sig \in sigs, pid \in {"", "4711"} :
        /\ op' = "status"
        /\ arg' = name
        /\ input' = [sig |-> sig, pid |-> pid]
        /\ result' = status(name, sig, pid, <<>>).ret
        /\ issued' = status(name, sig, pid, <<>>).cmds
        /\ logged' = <<>>
        /\ UNCHANGED world

\* The parser alone, over a boot script and a dump.
NextRc ==
    \/ AppendRc(RcMenu, MaxRcLines) /\ UNCHANGED first
    \/ TruncateRc /\ UNCHANGED first
    \/ ChmodRc /\ UNCHANGED first
    \/ AppendConf(ConfMenu, MaxConfLines) /\ UNCHANGED first
    \/ TruncateConf /\ UNCHANGED first
    \/ GetRc /\ UNCHANGED first

SpecRc == Init /\ [][NextRc]_vars

\* The listing functions, over a boot script, a dump and a directory.
ListRcMenu == {RcCall}
ListConfMenu == {ConfSshdNo, ConfCronNo, ConfPkg}
ListScripts == {sshd, cron}
ListKinds == {"absent", "plain", "exec"}
MaxListRc == 1
MaxListConf == 2

NextList ==
    \/ AppendRc(ListRcMenu, MaxListRc) /\ UNCHANGED first
    \/ TruncateRc /\ UNCHANGED first
    \/ AppendConf(ListConfMenu, MaxListConf) /\ UNCHANGED first
    \/ TruncateConf /\ UNCHANGED first
    \/ SetEntry(ListScripts, ListKinds) /\ UNCHANGED first
    \/ RemoveDir /\ UNCHANGED first
    \/ MakeDir /\ UNCHANGED first
    \/ GetRc /\ UNCHANGED first
    \/ GetAll /\ UNCHANGED first
    \/ GetEnabled /\ UNCHANGED first
    \/ GetDisabled /\ UNCHANGED first
    \/ Enabled(ListScripts) /\ UNCHANGED first
    \/ Disabled(ListScripts) /\ UNCHANGED first

SpecList == Init /\ [][NextList]_vars

\* The control actions and status, over a directory.
GlobStar == <<"s", "s", "h", "d", "*">>
GlobQuestion == <<"?", "t", "t", "p", "d">>
GlobBracket == <<"[", "c", "h", "]", "*">>
GlobNone == <<"n", "t", "p", "*">>
Globs == {GlobStar, GlobQuestion, GlobBracket, GlobNone}

NextInvoke ==
    \/ SetEntry(Scripts, Kinds) /\ UNCHANGED first
    \/ RemoveDir /\ UNCHANGED first
    \/ MakeDir /\ UNCHANGED first
    \/ Available(Scripts) /\ UNCHANGED first
    \/ Missing(Scripts) /\ UNCHANGED first
    \/ Start(Scripts) /\ UNCHANGED first
    \/ Stop(Scripts) /\ UNCHANGED first
    \/ Restart(Scripts) /\ UNCHANGED first
    \/ Reload(Scripts) /\ UNCHANGED first
    \/ Status(Scripts \cup Globs) /\ UNCHANGED first
    \/ StatusSig({sshd, GlobStar}, {"sshd: "}) /\ UNCHANGED first

SpecInvoke == Init /\ [][NextInvoke]_vars

\* Queries interleaved with edits; the first call of the run is remembered
\* with the world it saw.
SeqRcMenu == {RcCall}
SeqConfMenu == {ConfSshdNo, ConfPkg}
SeqScripts == {sshd}
SeqKinds == {"absent", "exec"}
MaxSeqLines == 1

Remember ==
    first' = IF first.op = "none"
             THEN [op |-> op', arg |-> arg', world |-> world, result |-> result']
             ELSE first

NextSeq ==
    \/ AppendRc(SeqRcMenu, MaxSeqLines) /\ UNCHANGED first
    \/ TruncateRc /\ UNCHANGED first
    \/ AppendConf(SeqConfMenu, MaxSeqLines) /\ UNCHANGED first
    \/ TruncateConf /\ UNCHANGED first
    \/ SetEntry(SeqScripts, SeqKinds) /\ UNCHANGED first
    \/ GetRc /\ Remember
    \/ GetAll /\ Remember
    \/ GetEnabled /\ Remember
    \/ GetDisabled /\ Remember
    \/ Enabled(SeqScripts) /\ Remember
    \/ Disabled(SeqScripts) /\ Remember

SpecSeq == Init /\ [][NextSeq]_vars

-----------------------------------------------------------------------------
(* What the lines of the world say, read off the lines themselves          *)
(* (independently of the regular expressions above)                        *)

Daemons == {sshd, httpd, cron}

\* the daemon names a line of the boot script passes to start_daemon
Activates(line) ==
    IF line = RcCall THEN {sshd, httpd}
    ELSE IF line = RcIndented THEN {cron}
    ELSE {}                  \* RcDef defines the function, RcEcho only prints

\* the daemon names a binding sets to exactly NO
Disables(var) ==
    IF var = ConfSshdNo THEN {sshd}
    ELSE IF var = ConfCronNo THEN {cron}
    ELSE {}                  \* ConfHttpdNot has the value NOT

\* the daemon names a quoted pkg_scripts binding lists
Lists(var) ==
    IF var = ConfPkg THEN {cron, sshd}
    ELSE {}                  \* ConfPkgBare is not quoted

Activated(d) == \E i \in 1..Len(rc.lines) : d \in Activates(rc.lines[i])
HasNo(d) == \E i \in 1..Len(conf) : d \in Disables(conf[i])
InPkg(d) == \E i \in 1..Len(conf) : d \in Lists(conf[i])

\* no pkg_scripts binding listing d comes after a <d>_flags=NO binding
NoPkgAfterNo(d) ==
    \A i, j \in 1..Len(conf) :
        d \in Disables(conf[i]) /\ d \in Lists(conf[j]) => j < i

\* no <d>_flags=NO binding comes after a pkg_scripts binding listing d
NoNoAfterPkg(d) ==
    \A i, j \in 1..Len(conf) :
        d \in Lists(conf[i]) /\ d \in Disables(conf[j]) => j < i

-----------------------------------------------------------------------------
(* C1 *)

\* C1: a <d>_flags=NO binding for a daemon d that no start_daemon call of the
\* boot script names (and pkg_scripts does not list) creates no entry: d is
\* absent from the map _get_rc returns.
C1_FlagsNoCreatesNoEntry ==
    op = "_get_rc" =>
        \A d \in Daemons :
            HasNo(d) /\ ~Activated(d) /\ ~InPkg(d) => d \notin DOMAIN result

-----------------------------------------------------------------------------
(* C2 *)

\* C2 as stated: a daemon d that a start_daemon call names and that has a
\* <d>_flags=NO binding is mapped to false, wherever the lines stand.
C2_ActivatedAndNoIsFalse ==
    op = "_get_rc" /\ rc.readable =>
        \A d \in Daemons :
            Activated(d) /\ HasNo(d) => d \in DOMAIN result /\ result[d] = FALSE

\* C2 amended: a daemon d that a start_daemon call names and that has a
\* <d>_flags=NO binding is mapped to false, provided no pkg_scripts binding
\* listing d follows that <d>_flags=NO binding in the dump.
C2_ActivatedAndNoIsFalseUnlessListedLater ==
    op = "_get_rc" /\ rc.readable =>
        \A d \in Daemons :
            Activated(d) /\ HasNo(d) /\ NoPkgAfterNo(d) =>
                d \in DOMAIN result /\ result[d] = FALSE

C2_Witness ==
    /\ op = "_get_rc" /\ rc.readable
    /\ Activated(sshd) /\ HasNo(sshd) /\ InPkg(sshd) /\ NoPkgAfterNo(sshd)
    /\ Len(rc.lines) = MaxRcLines /\ rc.lines[MaxRcLines] = RcCall
    /\ result[sshd] = FALSE

-----------------------------------------------------------------------------
(* C3 *)

\* C3 as stated: every name a pkg_scripts='...' binding lists is in the map
\* and mapped to true, for any ordering of the bindings of the dump.
C3_ListedIsTrue ==
    op = "_get_rc" =>
        \A d \in Daemons : InPkg(d) => d \in DOMAIN result /\ result[d] = TRUE

\* C3 amended: every name a pkg_scripts='...' binding lists is in the map,
\* whatever the boot script put there, and is mapped to true provided no
\* <d>_flags=NO binding follows that pkg_scripts binding in the dump.
C3_ListedIsPresentAndTrueUnlessDisabledLater ==
    op = "_get_rc" =>
        \A d \in Daemons :
            InPkg(d) => /\ d \in DOMAIN result
                        /\ NoNoAfterPkg(d) => result[d] = TRUE

C3_Witness ==
    /\ op = "_get_rc" /\ rc.readable
    /\ Activated(sshd) /\ HasNo(sshd) /\ InPkg(sshd) /\ NoNoAfterPkg(sshd)
    /\ ~Activated(cron) /\ InPkg(cron)
    /\ result[sshd] = TRUE /\ result[cron] = TRUE

-----------------------------------------------------------------------------
(* C4 *)

\* C4: with the boot script read, every daemon d that a start_daemon call
\* names and that has no <d>_flags=NO binding is mapped to true; the line
\* that defines start_daemon() (like any line that is no call) contributes
\* no name: every name of the map is one a call, a NO binding or pkg_scripts
\* names.
C4_ActivatedIsTrue ==
    op = "_get_rc" /\ rc.readable =>
        /\ \A d \in Daemons :
               Activated(d) /\ ~HasNo(d) => d \in DOMAIN result /\ result[d] = TRUE
        /\ \A d \in DOMAIN result :
               d \in Daemons /\ (Activated(d) \/ HasNo(d) \/ InPkg(d))

C4_Witness ==
    /\ op = "_get_rc" /\ rc.readable
    /\ rc.lines = <<RcDef, RcIndented>>
    /\ HasNo(sshd) /\ ~HasNo(cron) /\ ~InPkg(cron)
    /\ result[cron] = TRUE

-----------------------------------------------------------------------------
(* C6 *)

\* C6: when /etc/rc cannot be read, _get_rc logs one error, takes nothing
\* from the boot script, still evaluates the configuration, and returns the
\* map the bindings alone build.
C6_UnreadableRcIsPhase2Only ==
    op = "_get_rc" /\ ~rc.readable =>
        /\ logged = <<"Unable to read /etc/rc">>
        /\ issued = <<SET_CMD>>
        /\ result = conf_vars(conf, EmptyDict)
        /\ \A d \in DOMAIN result : HasNo(d) \/ InPkg(d)

C6_Witness ==
    /\ op = "_get_rc" /\ ~rc.readable
    /\ Activated(httpd) /\ Activated(cron)
    /\ InPkg(cron)
    /\ logged # <<>>
    /\ DOMAIN result = {cron, sshd}

-----------------------------------------------------------------------------
(* C5 *)

\* an executable regular file of an existing /etc/rc.d
IsExecutableScript(d) ==
    rcd.isdir /\ d \in DOMAIN rcd.entries /\ rcd.entries[d] = "exec"

\* C5: of two listing calls made one after the other on the same boot
\* script, dump and directory, get_enabled and get_disabled (in either order)
\* return lists with no name in common, and what get_enabled or get_disabled
\* returns is within what get_all returns (before or after it).
C5_EnabledDisabledDisjointWithinAll ==
    [][ /\ ( \/ op = "get_enabled" /\ op' = "get_disabled"
             \/ op = "get_disabled" /\ op' = "get_enabled" )
           => Range(result) \cap Range(result') = {}
        /\ op = "get_all" /\ op' \in {"get_enabled", "get_disabled"}
           => Range(result') \subseteq Range(result)
        /\ op \in {"get_enabled", "get_disabled"} /\ op' = "get_all"
           => Range(result) \subseteq Range(result')
        /\ op' \in {"get_enabled", "get_disabled"}
           => \A d \in Range(result') : IsExecutableScript(d)
      ]_vars

C5_Witness ==
    /\ op = "get_disabled"
    /\ result = <<sshd>>
    /\ get_enabled = <<cron>>
    /\ Activated(sshd) /\ HasNo(sshd) /\ InPkg(sshd) /\ InPkg(cron)
    /\ Activated(httpd) /\ ~IsExecutableScript(httpd)

-----------------------------------------------------------------------------
(* C9 *)

\* C9: for a daemon that has an executable script in /etc/rc.d but that no
\* start_daemon call, no _flags=NO binding and no pkg_scripts binding names,
\* the map has no entry, and enabled and disabled both answer false.
C9_NoEvidenceIsNeitherEnabledNorDisabled ==
    \A d \in Daemons :
        IsExecutableScript(d) /\ ~Activated(d) /\ ~HasNo(d) /\ ~InPkg(d) =>
            /\ op = "_get_rc" => d \notin DOMAIN result
            /\ op \in {"enabled", "disabled"} /\ arg = d => result = FALSE

C9_Witness ==
    /\ op = "disabled" /\ arg = cron /\ result = FALSE
    /\ IsExecutableScript(cron) /\ ~Activated(cron) /\ ~HasNo(cron) /\ ~InPkg(cron)
    /\ enabled(cron) = FALSE
    /\ rc.lines # <<>> /\ conf # <<>>

-----------------------------------------------------------------------------
(* C7 *)

ActionWords ==
    [start   |-> <<"s", "t", "a", "r", "t">>,
     stop    |-> <<"s", "t", "o", "p">>,
     restart |-> <<"r", "e", "s", "t", "a", "r", "t">>,
     reload_ |-> <<"r", "e", "l", "o", "a", "d">>]

\* C7: start, stop, restart and reload each run exactly one command,
\* /etc/rc.d/<name> -f <action>, and return true exactly when its exit code
\* is zero; any other exit code gives false.
C7_ControlIsOneCommandAndZeroIsTrue ==
    op \in DOMAIN ActionWords =>
        /\ issued = << RC_D \o arg \o DASH_F \o ActionWords[op] >>
        /\ result \in BOOLEAN
        /\ result = TRUE <=> input = 0

C7_Witness ==
    /\ op = "reload_" /\ arg = cron
    /\ ~IsExecutableScript(cron)
    /\ input = 127
    /\ result = FALSE

-----------------------------------------------------------------------------
(* C8 *)

\* the names of Scripts each pattern of Globs matches, read off the pattern
GlobMatches(pattern) ==
    IF pattern = GlobStar THEN {sshd, sshd2}
    ELSE IF pattern = GlobQuestion THEN {httpd}
    ELSE IF pattern = GlobBracket THEN {cron, httpd}
    ELSE {}

\* C8: status without a signature, for a name with a glob metacharacter,
\* returns a mapping whose keys are exactly the available services the
\* pattern matches, each true iff its check command exits with zero (one
\* check command per key); for a name without metacharacters it returns one
\* boolean, true iff the check command of that name exits with zero.
C8_StatusGlobIsMappingOverMatches ==
    op = "status" /\ input.sig = "" =>
        IF arg \in Globs
        THEN /\ DOMAIN result = { n \in GlobMatches(arg) : IsExecutableScript(n) }
             /\ \A n \in DOMAIN result :
                    /\ result[n] \in BOOLEAN
                    /\ result[n] = TRUE <=> input.retcodes[n] = 0
             /\ Len(issued) = Cardinality(DOMAIN result)
             /\ \A n \in DOMAIN result :
                    \E i \in 1..Len(issued) :
                        issued[i] = RC_D \o n \o DASH_F \o <<"c", "h", "e", "c", "k">>
        ELSE /\ result \in BOOLEAN
             /\ result = TRUE <=> input.retcodes[arg] = 0
             /\ issued = << RC_D \o arg \o DASH_F \o <<"c", "h", "e", "c", "k">> >>

C8_Witness ==
    /\ op = "status" /\ input.sig = "" /\ arg = GlobStar
    /\ \A n \in Scripts : n # cron => IsExecutableScript(n)
    /\ rcd.entries[cron] = "plain"
    /\ DOMAIN result = {sshd, sshd2}
    /\ result[sshd] = TRUE /\ result[sshd2] = FALSE

-----------------------------------------------------------------------------
(* C10 *)

\* the last binding of the dump that names d (0 if none); a NO binding names
\* d whether or not a start_daemon call does
LastNaming(d) ==
    LET naming == { i \in 1..Len(conf) : d \in Disables(conf[i]) \cup Lists(conf[i]) }
    IN  IF naming = {} THEN 0
        ELSE CHOOSE i \in naming : \A j \in naming : j <= i

\* what the sources, as they stand, say of each daemon
SourcesMap ==
    [d \in { e \in Daemons : LastNaming(e) > 0 \/ (rc.readable /\ Activated(e)) } |->
        IF LastNaming(d) > 0 THEN d \in Lists(conf[LastNaming(d)]) ELSE TRUE]

NamesInOrder == <<cron, httpd, sshd, sshd2>>

SourcesAll == SelectSeq(NamesInOrder, IsExecutableScript)

SourcesList(is_enabled) ==
    SelectSeq(SourcesAll,
              LAMBDA d : d \in DOMAIN SourcesMap /\ SourcesMap[d] = is_enabled)

\* C10: no state is carried between calls.  Whatever calls and edits came
\* before, what _get_rc, get_all, get_enabled, get_disabled, enabled and
\* disabled return is what the boot script, the dump and the directory say
\* at the time of the call; in particular a call returns what the first call
\* of the run returned whenever it is the same call on the same sources.
C10_ResultDependsOnSourcesOnly ==
    /\ op = "_get_rc" => result = SourcesMap
    /\ op = "get_all" => result = SourcesAll
    /\ op = "get_enabled" => result = SourcesList(TRUE)
    /\ op = "get_disabled" => result = SourcesList(FALSE)
    /\ op = "enabled" => result = (arg \in Range(SourcesList(TRUE)))
    /\ op = "disabled" => result = (arg \in Range(SourcesList(FALSE)))
    /\ op # "none" /\ first.op = op /\ first.arg = arg /\ first.world = world
           => first.result = result

\* the first call saw other sources and answered otherwise
C10_Witness ==
    /\ op = "get_enabled" /\ first.op = "get_enabled"
    /\ first.world # world
    /\ first.result = <<sshd>> /\ result = <<>>
    /\ IsExecutableScript(sshd) /\ HasNo(sshd)

=============================================================================
